---- MODULE Spec2Model ----
(***************************************************************************)
(* Resampling engine of codeja3/resampled: Resample.run_hypothesis and     *)
(* Resample.estimate_ci (src/resampled.py), which are also the bodies of   *)
(* Bootstrap.calculate_pvalue / Bootstrap.estimate_ci (src/bootstrap.py)   *)
(* and permutation.calculate_pvalue (src/permutation.py).                  *)
(*                                                                         *)
(* A dataset is the pair of columns the code keeps (df[[levels, target]]): *)
(* a sequence of rows [lvl, tgt].  The grouping column holds numbers, the  *)
(* target column holds small naturals.  Statistics are exact rationals     *)
(* [n, d] in lowest terms with d > 0; NaN is [n |-> 0, d |-> 0].           *)
(* A pandas table is [cols, renamed]: its columns in order, and whether    *)
(* pd.concat(..., ignore_index=True) has relabelled them 0, 1, 2, ...      *)
(***************************************************************************)
EXTENDS Integers, Sequences, FiniteSets, TLC

VARIABLES method, op, data, call, pc, df, obs, tab, i, ret, err

vars == <<method, op, data, call, pc, df, obs, tab, i, ret, err>>

(* ------------------------------ bounds -------------------------------- *)
\* most rows of a dataset
MaxRows == 3
\* most cells of resampled values a call may draw (rows of the dataset * R),
\* for run_hypothesis and for estimate_ci
MaxCells == 6
MaxCellsCI == 8

\* values of the grouping column and of the target column
Labels == {1, 2}
Values == {0, 1}
Rows == [lvl : Labels, tgt : Values]
Datasets == UNION {[1..n -> Rows] : n \in 1..MaxRows}
Methods == {"bootstrap", "permutation"}
Funcs == {"mean", "max"}

(* ---------------------------- rationals ------------------------------- *)
NaN == [n |-> 0, d |-> 0]
IsNaN(r) == r.d = 0
Abs(x) == IF x < 0 THEN -x ELSE x

RECURSIVE GCD(_, _)
GCD(a, b) == IF b = 0 THEN a ELSE GCD(b, a % b)

Rat(n, d) ==
    IF d = 0 THEN NaN
    ELSE LET g == GCD(Abs(n), Abs(d))
             s == IF d < 0 THEN -1 ELSE 1
         IN  [n |-> (s * n) \div g, d |-> (s * d) \div g]

Int2Rat(k) == [n |-> k, d |-> 1]
RAdd(a, b) == IF IsNaN(a) \/ IsNaN(b) THEN NaN ELSE Rat(a.n * b.d + b.n * a.d, a.d * b.d)
RSub(a, b) == IF IsNaN(a) \/ IsNaN(b) THEN NaN ELSE Rat(a.n * b.d - b.n * a.d, a.d * b.d)
RMul(a, b) == IF IsNaN(a) \/ IsNaN(b) THEN NaN ELSE Rat(a.n * b.n, a.d * b.d)
\* IEEE comparison: any comparison with NaN is false
RGeq(a, b) == ~IsNaN(a) /\ ~IsNaN(b) /\ a.n * b.d >= b.n * a.d
RGt(a, b) == ~IsNaN(a) /\ ~IsNaN(b) /\ a.n * b.d > b.n * a.d
RFloor(a) == a.n \div a.d

(* --------------------------- statistic func --------------------------- *)
RECURSIVE SeqSum(_)
SeqSum(s) == IF s = <<>> THEN 0 ELSE Head(s) + SeqSum(Tail(s))

RECURSIVE SeqMax(_)
SeqMax(s) == IF Len(s) = 1 THEN s[1]
             ELSE LET m == SeqMax(Tail(s)) IN IF s[1] >= m THEN s[1] ELSE m

\* np.mean / np.max of a pandas Series; an empty Series gives NaN
Mean(s) == IF s = <<>> THEN NaN ELSE Rat(SeqSum(s), Len(s))
Max(s) == IF s = <<>> THEN NaN ELSE Int2Rat(SeqMax(s))
ApplyFunc(f, s) == IF f = "mean" THEN Mean(s) ELSE Max(s)

(* ------------------------------ pandas -------------------------------- *)
\* df[mask]: the rows of a column whose position satisfies the mask, in order
RECURSIVE Pick(_, _, _)
Pick(col, mask, k) ==
    IF k > Len(col) THEN <<>>
    ELSE (IF mask[k] THEN <<col[k]>> ELSE <<>>) \o Pick(col, mask, k + 1)

Column(d, field) == [k \in 1..Len(d) |-> d[k][field]]
EqMask(col, v) == [k \in 1..Len(col) |-> col[k] = v]

\* df[(df[levels] == lvl1) | (df[levels] == lvl2)]
Restrict2(d, l1, l2) == SelectSeq(d, LAMBDA r : r.lvl = l1 \/ r.lvl = l2)
\* slip: the level filter of estimate_ci left out
Restrict1Unfiltered(d, l) == d
\* df[(df[levels] == lvl)]
Restrict1(d, l) == SelectSeq(d, LAMBDA r : r.lvl = l)

\* Series.sample(n=len, replace=True): any choice of row positions
BootstrapDraws(n) == [1..n -> 1..n]
\* Series.sample(n=len, replace=False): a shuffle of the row positions
PermutationDraws(n) == {f \in [1..n -> 1..n] : \A a, b \in 1..n : f[a] = f[b] => a = b}
\* b.reset_index(drop=True): the drawn values, re-indexed 0..n-1
Sampled(col, draw) == [k \in 1..Len(draw) |-> col[draw[k]]]
\* the columns one call of sample can give
BootstrapSamples(col) == {Sampled(col, draw) : draw \in BootstrapDraws(Len(col))}
\* slip: replace=True in the permutation branch
PermutationSamplesReplaced(col) == BootstrapSamples(col)
PermutationSamples(col) == {Sampled(col, draw) : draw \in PermutationDraws(Len(col))}
\* df[[levels]]: the table the resamples are appended to
LevelsTable(d) == [cols |-> <<Column(d, "lvl")>>, renamed |-> FALSE]

\* pd.concat([t, b], axis=1, ignore_index=True)
Concat(t, b) == [cols |-> Append(t.cols, b), renamed |-> TRUE]

\* slip: a:b taken as a positional slice, its end excluded
LocColsExclusive(t, a, b) == SubSeq(t.cols, a + 1, IF b > Len(t.cols) THEN Len(t.cols) ELSE b)
\* t.loc[:, a:b] on integer column labels 0, 1, ...: labels a..b inclusive
LocCols(t, a, b) == SubSeq(t.cols, a + 1, IF b + 1 > Len(t.cols) THEN Len(t.cols) ELSE b + 1)

NoRet == [kind |-> "none"]

(* ----------------------------- percentile ----------------------------- *)
RECURSIVE Insert(_, _)
Insert(x, s) ==
    IF s = <<>> THEN <<x>>
    ELSE IF RGeq(Head(s), x) THEN <<x>> \o s
    ELSE <<Head(s)>> \o Insert(x, Tail(s))

RECURSIVE Sort(_)
Sort(s) == IF s = <<>> THEN <<>> ELSE Insert(Head(s), Sort(Tail(s)))

\* slip: the lower order statistic taken, without interpolation
PercentileLower(a, q) ==
    IF \E k \in 1..Len(a) : IsNaN(a[k]) THEN NaN
    ELSE LET s == Sort(a)
             j == RFloor(RMul(RMul(q, Rat(1, 100)), Int2Rat(Len(s) - 1)))
         IN  IF j + 2 > Len(s) THEN s[Len(s)] ELSE s[j + 1]

\* np.percentile(a, q): linear interpolation between the order statistics
\* at the virtual index q/100 * (n-1); NaN if a holds a NaN
Percentile(a, q) ==
    IF \E k \in 1..Len(a) : IsNaN(a[k]) THEN NaN
    ELSE LET s == Sort(a)
             n == Len(s)
             h == RMul(RMul(q, Rat(1, 100)), Int2Rat(n - 1))
             j == RFloor(h)
             g == RSub(h, Int2Rat(j))
         IN  IF j + 2 > n THEN s[n]
             ELSE RAdd(s[j + 1], RMul(g, RSub(s[j + 2], s[j + 1])))

\* q=(100-0.5*100*alpha_level) and q=0.5*100*alpha_level
QUpper(alpha) == RSub(Int2Rat(100), RMul(Int2Rat(50), alpha))
QLower(alpha) == RMul(Int2Rat(50), alpha)
\* slip: the two percentiles in the other order
ConfIntSwapped(stat, alpha) == <<Percentile(stat, QLower(alpha)), Percentile(stat, QUpper(alpha))>>
ConfInt(stat, alpha) == <<Percentile(stat, QUpper(alpha)), Percentile(stat, QLower(alpha))>>

\* alpha_level values tried: the default 0.05 and a wide 0.9
AlphaLevels == {Rat(1, 20), Rat(9, 10)}

(* ------------------------- per-column statistics ---------------------- *)
\* t[t.loc[:, 0] == lvl].loc[:, a:b].apply(func, axis=0)
GroupStats(t, lvl, a, b, f) ==
    LET mask == EqMask(t.cols[1], lvl)
        sel == LocCols(t, a, b)
    IN  [k \in 1..Len(sel) |-> ApplyFunc(f, Pick(sel[k], mask, 1))]

\* t.loc[:, a:b].apply(func, axis=0)
ColumnStats(t, a, b, f) ==
    LET sel == LocCols(t, a, b)
    IN  [k \in 1..Len(sel) |-> ApplyFunc(f, sel[k])]

\* slip: a strict comparison
PValueStrict(diff, o, R) ==
    Rat(Cardinality({k \in 1..Len(diff) : RGt(RSub(diff[k], o), Int2Rat(0))}), R)
\* np.sum((resampled_diff - obs_diff_statistic) >= 0) / R
PValue(diff, o, R) ==
    Rat(Cardinality({k \in 1..Len(diff) : RGeq(RSub(diff[k], o), Int2Rat(0))}), R)

(* ------------------------------- state -------------------------------- *)
EmptyTable == [cols |-> <<>>, renamed |-> FALSE]

InitCommon ==
    /\ method \in Methods
    /\ data \in Datasets
    /\ pc = "called"
    /\ df = <<>>
    /\ obs = NaN
    /\ tab = EmptyTable
    /\ i = 0
    /\ ret = NoRet
    /\ err = "none"

\* Resample(method).run_hypothesis(df, target, levels, lvl1, lvl2, R, func)
InitHyp ==
    /\ InitCommon
    /\ op = "run_hypothesis"
    /\ call \in [lvl1 : Labels, lvl2 : Labels, R : -1..MaxCells, func : Funcs]
    /\ call.R * Len(data) <= MaxCells

\* Resample(method).estimate_ci(df, target, levels, lvl, R, func, alpha_level)
\* with R >= 1
InitCI ==
    /\ InitCommon
    /\ op = "estimate_ci"
    /\ call \in [lvl : Labels, R : 1..MaxCellsCI, func : Funcs, alpha_level : AlphaLevels]
    /\ call.R * Len(data) <= MaxCellsCI

(* --------------------------- run_hypothesis --------------------------- *)
\* lines 72-81: restrict to the two levels, observed difference, new table
HypRestrict ==
    /\ op = "run_hypothesis" /\ pc = "called"
    /\ LET d == Restrict2(data, call.lvl1, call.lvl2)
           x == Pick(Column(d, "tgt"), EqMask(Column(d, "lvl"), call.lvl1), 1)
           y == Pick(Column(d, "tgt"), EqMask(Column(d, "lvl"), call.lvl2), 1)
       IN  /\ df' = d
           /\ obs' = RSub(ApplyFunc(call.func, x), ApplyFunc(call.func, y))
           /\ tab' = LevelsTable(d)
    /\ i' = 0
    /\ pc' = "loop"
    /\ UNCHANGED <<method, op, data, call, ret, err>>

\* lines 83-88: one bootstrap iteration
HypBootstrapIter ==
    /\ op = "run_hypothesis" /\ pc = "loop"
    /\ method = "bootstrap"
    /\ i < call.R
    /\ \E b \in BootstrapSamples(Column(df, "tgt")) : tab' = Concat(tab, b)
    /\ i' = i + 1
    /\ UNCHANGED <<method, op, data, call, pc, df, obs, ret, err>>

\* lines 89-94: one permutation iteration
HypPermutationIter ==
    /\ op = "run_hypothesis" /\ pc = "loop"
    /\ method = "permutation"
    /\ i < call.R
    /\ \E b \in PermutationSamples(Column(df, "tgt")) : tab' = Concat(tab, b)
    /\ i' = i + 1
    /\ UNCHANGED <<method, op, data, call, pc, df, obs, ret, err>>

\* lines 99-111: per-level statistics, their difference, the p-value
HypReduce ==
    /\ op = "run_hypothesis" /\ pc = "loop"
    /\ ~(i < call.R)
    /\ tab.renamed
    /\ LET f1 == GroupStats(tab, call.lvl1, 1, call.R, call.func)
           f2 == GroupStats(tab, call.lvl2, 1, call.R, call.func)
           diff == [k \in 1..Len(f1) |-> RSub(f1[k], f2[k])]
       IN  ret' = [kind |-> "run_hypothesis", resampled_ |-> tab.cols,
                   resampled_diff |-> diff, pval |-> PValue(diff, obs, call.R)]
    /\ pc' = "returned"
    /\ UNCHANGED <<method, op, data, call, df, obs, tab, i, err>>

\* line 99 when the loop never ran: the only column is still named by the
\* levels string, so resampled_.loc[:, 0] raises KeyError
HypKeyError ==
    /\ op = "run_hypothesis" /\ pc = "loop"
    /\ ~(i < call.R)
    /\ ~tab.renamed
    /\ err' = "KeyError"
    /\ pc' = "raised"
    /\ UNCHANGED <<method, op, data, call, df, obs, tab, i, ret>>


(* ----------------------------- estimate_ci ---------------------------- *)
\* slip: the method is not tested, as in Bootstrap.estimate_ci
CIExitMissing ==
    /\ op = "estimate_ci" /\ pc = "called"
    /\ method # "bootstrap"
    /\ df' = Restrict1(data, call.lvl)
    /\ tab' = [cols |-> <<<<>>, Column(Restrict1(data, call.lvl), "lvl")>>, renamed |-> FALSE]
    /\ i' = 0
    /\ pc' = "loop"
    /\ UNCHANGED <<method, op, data, call, obs, ret, err>>

\* lines 143, 158-159: any method but bootstrap exits
CIExit ==
    /\ op = "estimate_ci" /\ pc = "called"
    /\ method # "bootstrap"
    /\ err' = "SystemExit"
    /\ pc' = "raised"
    /\ UNCHANGED <<method, op, data, call, df, obs, tab, i, ret>>

\* lines 146-151: restrict to the level; df.reset_index() keeps the old row
\* index as a column, and df.drop(columns=[target]) leaves [index, levels]
CIRestrict ==
    /\ op = "estimate_ci" /\ pc = "called"
    /\ method = "bootstrap"
    /\ LET d == Restrict1(data, call.lvl)
           index == Pick([k \in 1..Len(data) |-> k - 1], EqMask(Column(data, "lvl"), call.lvl), 1)
       IN  /\ df' = d
           /\ tab' = [cols |-> <<index, Column(d, "lvl")>>, renamed |-> FALSE]
    /\ i' = 0
    /\ pc' = "loop"
    /\ UNCHANGED <<method, op, data, call, obs, ret, err>>

\* lines 154-157: one bootstrap iteration
CIBootstrapIter ==
    /\ op = "estimate_ci" /\ pc = "loop"
    /\ i < call.R
    /\ \E b \in BootstrapSamples(Column(df, "tgt")) : tab' = Concat(tab, b)
    /\ i' = i + 1
    /\ UNCHANGED <<method, op, data, call, pc, df, obs, ret, err>>

\* lines 162-168: statistic of the columns labelled 1..R, percentile interval
CIReduce ==
    /\ op = "estimate_ci" /\ pc = "loop"
    /\ ~(i < call.R)
    /\ tab.renamed
    /\ LET stat == ColumnStats(tab, 1, call.R, call.func)
       IN  ret' = [kind |-> "estimate_ci", bootstrapped_stat |-> stat,
                   ci |-> ConfInt(stat, call.alpha_level)]
    /\ pc' = "returned"
    /\ UNCHANGED <<method, op, data, call, df, obs, tab, i, err>>

(* ---------------------------- specification -------------------------- *)
Init == InitHyp \/ InitCI

Next ==
    \/ HypRestrict
    \/ HypBootstrapIter
    \/ HypPermutationIter
    \/ HypReduce
    \/ HypKeyError
    \/ CIExit
    \/ CIRestrict
    \/ CIBootstrapIter
    \/ CIReduce

Spec == Init /\ [][Next]_vars

(* ============================== claims ================================ *)
IsHyp == op = "run_hypothesis"
IsCI == op = "estimate_ci"
Returned == pc = "returned"

\* the group labels the call asks for
Requested == IF IsHyp THEN {call.lvl1, call.lvl2} ELSE {call.lvl}
Present(l) == \E k \in 1..Len(data) : data[k].lvl = l
\* the rows of the dataset with a requested label, and with one label
RequestedRows == SelectSeq(data, LAMBDA r : r.lvl \in Requested)
TargetsOf(l) == Column(SelectSeq(data, LAMBDA r : r.lvl = l), "tgt")
\* the values of a resampled column at the row positions labelled l
AtLabel(col, l) == Pick(col, EqMask(Column(RequestedRows, "lvl"), l), 1)
Count(s, v) == Cardinality({k \in 1..Len(s) : s[k] = v})
AllSame(s) == \A a, b \in 1..Len(s) : s[a] = s[b]

\* d_k: the statistic difference of the k-th resampled column of the
\* returned table
ResampleDiff(k) ==
    RSub(ApplyFunc(call.func, AtLabel(ret.resampled_[k + 1], call.lvl1)),
         ApplyFunc(call.func, AtLabel(ret.resampled_[k + 1], call.lvl2)))
ObsDiff ==
    RSub(ApplyFunc(call.func, TargetsOf(call.lvl1)),
         ApplyFunc(call.func, TargetsOf(call.lvl2)))

\* C1: when both labels are present, the returned p_value is (the number of
\* resample differences d_k with d_k >= obs_diff) / R, with obs_diff and d_k
\* the differences of func over the label1 and label2 row positions; the
\* comparison is non-strict, so one identity resample gives p_value = 1.
C1_PValue ==
    (IsHyp /\ Returned /\ Present(call.lvl1) /\ Present(call.lvl2)) =>
        /\ ret.pval = Rat(Cardinality({k \in 1..call.R : RGeq(ResampleDiff(k), ObsDiff)}), call.R)
        /\ (call.R = 1 /\ ret.resampled_[2] = Column(RequestedRows, "tgt"))
              => ret.pval = Int2Rat(1)

C1_Witness ==
    /\ IsHyp /\ Returned /\ Present(call.lvl1) /\ Present(call.lvl2)
    /\ call.lvl1 # call.lvl2 /\ call.func = "mean"
    /\ Len(TargetsOf(call.lvl1)) = 2 /\ Len(TargetsOf(call.lvl2)) = 1
    /\ call.R = 2
    /\ RGeq(ResampleDiff(1), ObsDiff) /\ ~RGeq(ResampleDiff(2), ObsDiff)
    /\ ret.pval = Rat(1, 2)

\* C2: estimate_ci under bootstrap with func = mean on a group whose target
\* values all equal c returns a distribution whose every entry is c and the
\* interval (c, c), whatever the group label is.
C2_PointMass ==
    (IsCI /\ Returned /\ call.func = "mean" /\ Present(call.lvl)) =>
        \A c \in Values :
            (\A k \in 1..Len(TargetsOf(call.lvl)) : TargetsOf(call.lvl)[k] = c) =>
                /\ \A k \in 1..Len(ret.bootstrapped_stat) : ret.bootstrapped_stat[k] = Int2Rat(c)
                /\ ret.ci = <<Int2Rat(c), Int2Rat(c)>>

\* C3: the difference distribution returned by run_hypothesis has exactly R
\* entries, entry k being the difference of the column appended by
\* iteration k; the table grows by one column per iteration.
C3_LengthR ==
    /\ (IsHyp /\ pc \in {"loop", "returned"}) => Len(tab.cols) = i + 1
    /\ (IsHyp /\ Returned) =>
          /\ call.R >= 1
          /\ ret.resampled_ = tab.cols
          /\ Len(ret.resampled_) = call.R + 1
          /\ Len(ret.resampled_diff) = call.R
          /\ \A k \in 1..call.R : ret.resampled_diff[k] = ResampleDiff(k)

C3_Witness ==
    /\ IsHyp /\ Returned /\ call.R = 3 /\ method = "bootstrap"
    /\ Len(ret.resampled_diff) = 3
    /\ ~IsNaN(ret.resampled_diff[1])
    /\ ret.resampled_diff[1] # ret.resampled_diff[2]
    /\ ret.resampled_diff[2] # ret.resampled_diff[3]

\* C4: when a requested label matches no row, the operation fails with
\* EmptyGroup before any resampling iteration and returns nothing.
C4_EmptyGroupFails ==
    (/\ \E l \in Requested : ~Present(l)
     /\ call.R >= 1
     /\ IsCI => method = "bootstrap") =>
        /\ i = 0
        /\ pc # "returned"
        /\ ret = NoRet
        /\ pc = "raised" => err = "EmptyGroup"

\* C5: run_hypothesis with R < 1 fails with InvalidArgument and returns no
\* partial result.
C5_InvalidArgument ==
    (IsHyp /\ call.R < 1) =>
        /\ pc # "returned"
        /\ ret = NoRet
        /\ pc = "raised" => err = "InvalidArgument"

\* C6: estimate_ci on an engine built with the permutation strategy fails
\* (the exit of line 159 is the code's UnsupportedOperation): no iteration
\* runs, no table is built, nothing is returned.
C6_PermutationCIFails ==
    (IsCI /\ method = "permutation") =>
        /\ pc \in {"called", "raised"}
        /\ pc = "raised" => err = "SystemExit"
        /\ i = 0
        /\ tab = EmptyTable
        /\ ret = NoRet

C6_Witness ==
    /\ IsCI /\ method = "permutation" /\ pc = "raised"
    /\ Present(call.lvl) /\ Len(data) = 3

\* C7: under permutation every resampled column of run_hypothesis is a
\* permutation of the restricted target column (same length, same multiset
\* of values) and the label column stays the original label sequence.
C7_Permutation ==
    (IsHyp /\ method = "permutation" /\ pc \in {"loop", "returned"}) =>
        LET orig == Column(RequestedRows, "tgt")
        IN  /\ tab.cols[1] = Column(RequestedRows, "lvl")
            /\ \A k \in 2..Len(tab.cols) :
                  /\ Len(tab.cols[k]) = Len(orig)
                  /\ \A v \in Values : Count(tab.cols[k], v) = Count(orig, v)
            /\ Returned => (ret.resampled_ = tab.cols /\ Len(tab.cols) = call.R + 1)

C7_Witness ==
    /\ IsHyp /\ method = "permutation" /\ Returned
    /\ call.R = 2 /\ Len(RequestedRows) = 3
    /\ \E v \in Values : Count(Column(RequestedRows, "tgt"), v) = 2
    /\ tab.cols[2] # Column(RequestedRows, "tgt")
    /\ tab.cols[3] # tab.cols[2]

\* C8: under bootstrap every resample drawn by run_hypothesis and by
\* estimate_ci has as many entries as there are rows with a requested label,
\* and each entry is the target value of such a row.
C8_Bootstrap ==
    (method = "bootstrap" /\ pc \in {"loop", "returned"}) =>
        LET first == IF IsHyp THEN 2 ELSE 3
            vals == {RequestedRows[k].tgt : k \in 1..Len(RequestedRows)}
        IN  \A k \in first..Len(tab.cols) :
                /\ Len(tab.cols[k]) = Len(RequestedRows)
                /\ \A j \in 1..Len(tab.cols[k]) : tab.cols[k][j] \in vals

C8_Witness ==
    /\ method = "bootstrap" /\ Returned /\ IsCI
    /\ Len(RequestedRows) = 2 /\ Len(data) = 3
    /\ \E k \in 1..Len(data) :
          /\ data[k].lvl \notin Requested
          /\ \A j \in 1..Len(RequestedRows) : RequestedRows[j].tgt # data[k].tgt
    /\ Len(tab.cols) = 4

\* the k-th smallest value of a, by rank
OrderStat(a, k) ==
    CHOOSE v \in {a[j] : j \in 1..Len(a)} :
        /\ Cardinality({j \in 1..Len(a) : RGt(v, a[j])}) < k
        /\ Cardinality({j \in 1..Len(a) : RGeq(v, a[j])}) >= k

\* the q-th percentile (q = qn/qd percent) as the weighted mean of the two
\* order statistics around position q/100 * (n-1)
LinPercentile(a, qn, qd) ==
    LET n == Len(a)
        lo == (qn * (n - 1)) \div (100 * qd)
        w == Rat(qn * (n - 1) - lo * 100 * qd, 100 * qd)
        hi == IF lo + 2 > n THEN n ELSE lo + 2
    IN  RAdd(RMul(RSub(Int2Rat(1), w), OrderStat(a, lo + 1)), RMul(w, OrderStat(a, hi)))

Upper == ret.ci[1]
Lower == ret.ci[2]

NarrowTail == call.alpha_level.n * (call.R - 1) < 2 * call.alpha_level.d

C10_NoPlainViolation ==
    ~ /\ IsCI /\ Returned /\ Present(call.lvl)
      /\ LET drawn == ColumnStats(tab, 2, call.R + 1, call.func)
         IN  \A k \in 1..call.R :
                Count(drawn, drawn[k]) = Count(ret.bootstrapped_stat, drawn[k])
      /\ ~AllSame(ret.bootstrapped_stat)
      /\ Upper = Lower

====
